---- MODULE Spec2Model ----
(***************************************************************************)
(* Model of mexFunction in                                                 *)
(* interfaces/matlab/find_face_landmarks_mex/find_face_landmarks_mex.cpp:  *)
(* argument parsing, construction of the tracking session and the video    *)
(* source, the pull loop, the conversion of the accumulated sequence into  *)
(* the host struct array, cleanup, and the outermost catch.                *)
(*                                                                         *)
(* Numeric host values are held in halves (num = 2 * value), so that 1.5   *)
(* is the number 3 and the truncation done by toInt is visible.            *)
(***************************************************************************)
EXTENDS Integers, Sequences, FiniteSets, TLC

\* ------------------------------------------------------------------ bounds
MaxArgs == 5
MaxPulls == 3

\* ------------------------------------------------------- host-side values
Char(s)   == [type |-> "char",   str |-> s,  num |-> 0]
Int32(n)  == [type |-> "int32",  str |-> "", num |-> 2 * n]
Dbl(h)    == [type |-> "double", str |-> "", num |-> h]
Single(h) == [type |-> "single", str |-> "", num |-> h]
Cell      == [type |-> "cell",   str |-> "", num |-> 0]

\* values offered for argument 0, argument 1 and the optional arguments
Arg0Values == {Char("model.dat"), Dbl(3)}
Arg1Values == {Char("seq.avi"), Int32(1), Dbl(3), Single(2), Cell}
OptValues  == {Dbl(3), Dbl(0), Cell}

ArgLists ==
    {<<>>}
    \cup {<<a>> : a \in Arg0Values}
    \cup UNION {
           { <<a, b>> \o t : a \in Arg0Values, b \in Arg1Values, t \in [1..n -> OptValues] }
           : n \in 0..(MaxArgs - 2) }

\* MxArray queries and conversions
isChar(a)   == a.type = "char"
isInt32(a)  == a.type = "int32"
isDouble(a) == a.type = "double"
toString(a) == a.str
toInt(a)    == a.num \div 2
toDouble(a) == a.num
toBool(a)   == a.num # 0
\* a conversion to a scalar raises a host error on a non-scalar-numeric value
Converts(a) == a.type # "cell"

\* ----------------------------------------------------- tracker's results
Face1 == [landmarks |-> << <<0, 0>>, <<2, 1>> >>,
          bbox |-> [x |-> 0, y |-> 1, width |-> 2, height |-> 2]]
Face2 == [landmarks |-> << <<3, 2>> >>,
          bbox |-> [x |-> 2, y |-> 0, width |-> 1, height |-> 3]]
Frames == { [width |-> 4, height |-> 3, faces |-> <<>>],
            [width |-> 4, height |-> 3, faces |-> <<Face1>>],
            [width |-> 5, height |-> 3, faces |-> <<Face2, Face1>>] }

\* ------------------------------------------------------------ error texts
ErrNoParams == "No parameters specified!"
ErrCount    == "Invalid number of parameters!"
ErrModel    == "modelFile must be a string containing the path to the model file!"
ErrSecond   == "Second parameter must be either a sequence path or a device id!"
ErrNoSource == "No video source specified!"
ErrOpen     == "Failed to open video source!"
ErrConvert  == "MxArray conversion failed"
ErrLibrary  == "exception raised by a library call"

VARIABLES
    args,                \* prhs[0..nrhs-1]
    landmarksModelPath, inputPath, device, width, height, frame_scale, preview,
    sfl,                 \* the tracking session
    sequence,            \* sfl->getSequence()
    vs,                  \* the video source
    faceCounter,
    window,              \* the window "find_face_landmarks" exists
    plhs0, i,            \* the output under construction, the frame index
    returned,            \* what the host receives from the call
    errmsg, errCount,    \* the message handed to mexErrMsgIdAndTxt, how often
    pc,
    \* history of the run
    pulls, updatedPulls, renders, keyPolls, keyPressed, lastPull, loopEnd,
    tracked              \* the frame results as addFrame produced them

locals == <<landmarksModelPath, inputPath, device, width, height, frame_scale, preview>>
objs   == <<sfl, sequence, vs, faceCounter, window>>
outs   == <<plhs0, i>>
hist   == <<pulls, updatedPulls, renders, keyPolls, keyPressed, lastPull, loopEnd, tracked>>
vars   == <<args, locals, objs, outs, returned, errmsg, errCount, pc, hist>>

NoOutput  == [has |-> FALSE, val |-> <<>>]
NoSession == [made |-> FALSE, model |-> "", scale |-> 0]
NoSource  == [called |-> FALSE, made |-> FALSE, kind |-> "none", path |-> "",
              device |-> -1, width |-> 0, height |-> 0, opened |-> FALSE]

Init ==
    /\ args \in ArgLists
    /\ landmarksModelPath = ""
    /\ inputPath = ""
    /\ device = -1
    /\ width = 0
    /\ height = 0
    /\ frame_scale = 2
    /\ preview = TRUE
    /\ sfl = NoSession
    /\ sequence = <<>>
    /\ vs = NoSource
    /\ faceCounter = 0
    /\ window = FALSE
    /\ plhs0 = NoOutput
    /\ i = 0
    /\ returned = NoOutput
    /\ errmsg = ""
    /\ errCount = 0
    /\ pc = "parse"
    /\ pulls = 0
    /\ updatedPulls = 0
    /\ renders = 0
    /\ keyPolls = 0
    /\ keyPressed = FALSE
    /\ lastPull = "none"
    /\ loopEnd = "none"
    /\ tracked = <<>>

\* ------------------------------------------------------- outermost catch
\* mexErrMsgIdAndTxt leaves the MEX function; the host receives no output,
\* whatever plhs[0] held
ErrOutputPartial(p) == p
ErrOutput(p) == NoOutput

Throw(msg) ==
    /\ pc' = "error"
    /\ errmsg' = msg
    /\ errCount' = errCount + 1
    /\ returned' = ErrOutput(plhs0)

\* ------------------------------------------------------ argument parsing
\* the checks of lines 40-44, in their order
CheckArgsTypeFirst(a) ==
    IF Len(a) = 0 THEN ErrNoParams
    ELSE IF ~isChar(a[1]) THEN ErrModel
    ELSE IF Len(a) < 2 THEN ErrCount
    ELSE "ok"
CheckArgs(a) ==
    IF Len(a) = 0 THEN ErrNoParams
    ELSE IF Len(a) < 2 THEN ErrCount
    ELSE IF ~isChar(a[1]) THEN ErrModel
    ELSE "ok"

\* the dispatch on the type of prhs[1], lines 47, 53 and 60
ModeAnyNumber(b) ==
    IF isChar(b) THEN "dataset"
    ELSE IF b.type \in {"int32", "double", "single"} THEN "live"
    ELSE "invalid"
Mode(b) ==
    IF isChar(b) THEN "dataset"
    ELSE IF isInt32(b) \/ isDouble(b) THEN "live"
    ELSE "invalid"

\* the locals after the dataset branch, run with nrhs = n
ParseDatasetSwapped(a, n) ==
    [inputPath   |-> toString(a[2]),
     device      |-> -1,
     width       |-> 0,
     height      |-> 0,
     frame_scale |-> IF n > 3 THEN toDouble(a[4]) ELSE 2,
     preview     |-> IF n > 2 THEN toBool(a[3]) ELSE TRUE]
ParseDataset(a, n) ==
    [inputPath   |-> toString(a[2]),
     device      |-> -1,
     width       |-> 0,
     height      |-> 0,
     frame_scale |-> IF n > 2 THEN toDouble(a[3]) ELSE 2,
     preview     |-> IF n > 3 THEN toBool(a[4]) ELSE TRUE]

\* the locals after the live branch, run with nrhs = n
ParseLive(a, n) ==
    [inputPath   |-> "",
     device      |-> toInt(a[2]),
     width       |-> IF n > 2 THEN toInt(a[3]) ELSE 0,
     height      |-> IF n > 3 THEN toInt(a[4]) ELSE 0,
     frame_scale |-> IF n > 4 THEN toDouble(a[5]) ELSE 2,
     preview     |-> TRUE]

\* how many arguments each branch reads
Reads(m) == IF m = "dataset" THEN 4 ELSE 5

\* the positions, among those the branch reads, whose conversion fails
BadArgs(a, m) == { k \in 3..Len(a) : k <= Reads(m) /\ ~Converts(a[k]) }
Least(S) == CHOOSE k \in S : \A n \in S : k <= n

SetLocals(r) ==
    /\ inputPath' = r.inputPath
    /\ device' = r.device
    /\ width' = r.width
    /\ height' = r.height
    /\ frame_scale' = r.frame_scale
    /\ preview' = r.preview

\* lines 35-60
ParseArgs ==
    /\ pc = "parse"
    /\ UNCHANGED <<args, objs, outs, hist>>
    /\ IF CheckArgs(args) # "ok"
       THEN /\ Throw(CheckArgs(args))
            /\ UNCHANGED locals
       ELSE /\ landmarksModelPath' = toString(args[1])
            /\ LET m == Mode(args[2]) IN
               IF m = "invalid"
               THEN /\ Throw(ErrSecond)
                    /\ UNCHANGED <<inputPath, device, width, height, frame_scale, preview>>
               ELSE LET bad == BadArgs(args, m)
                        n   == IF bad = {} THEN Len(args) ELSE Least(bad) - 1
                    IN /\ SetLocals(IF m = "dataset" THEN ParseDataset(args, n)
                                                     ELSE ParseLive(args, n))
                       /\ IF bad = {}
                          THEN /\ pc' = "session"
                               /\ UNCHANGED <<returned, errmsg, errCount>>
                          ELSE Throw(ErrConvert)

\* lines 62-64: the session is built from the model path and the scale;
\* the library may raise (a model file that cannot be read)
CreateSession ==
    /\ pc = "session"
    /\ UNCHANGED <<args, locals, sequence, vs, faceCounter, window, outs, hist>>
    /\ \/ /\ sfl' = [made |-> TRUE, model |-> landmarksModelPath, scale |-> frame_scale]
          /\ pc' = "source"
          /\ UNCHANGED <<returned, errmsg, errCount>>
       \/ /\ Throw(ErrLibrary)
          /\ UNCHANGED sfl

\* lines 66-70: the factory is asked for the source of inputPath and may
\* answer with a null pointer
CreateSource ==
    /\ pc = "source"
    /\ UNCHANGED <<args, locals, sfl, sequence, faceCounter, window, outs, hist>>
    /\ \E made \in BOOLEAN :
         /\ vs' = [called |-> TRUE, made |-> made, kind |-> "path", path |-> inputPath,
                   device |-> -1, width |-> 0, height |-> 0, opened |-> FALSE]
         /\ IF made
            THEN /\ pc' = "open"
                 /\ UNCHANGED <<returned, errmsg, errCount>>
            ELSE Throw(ErrNoSource)

\* lines 72-73
OpenSource ==
    /\ pc = "open"
    /\ UNCHANGED <<args, locals, sfl, sequence, faceCounter, window, outs, hist>>
    /\ \E ok \in BOOLEAN :
         IF ok
         THEN /\ vs' = [vs EXCEPT !.opened = TRUE]
              /\ pc' = "loop"
              /\ UNCHANGED <<returned, errmsg, errCount>>
         ELSE /\ Throw(ErrOpen)
              /\ UNCHANGED vs

\* ------------------------------------------------------------ main loop
\* line 80: a pull that is not updated goes back to the loop head
SkipsNever(updated) == FALSE
Skips(updated) == ~updated

\* line 85: rendering, display and the key poll are inside if (preview)
PreviewBlockAlways(p) == TRUE
PreviewBlock(p) == p

\* line 83: the session appends the result of the frame to its sequence
sfl_addFrame(seq, f) == Append(seq, f)

\* line 78, read() returns false: the loop ends
PullEnd ==
    /\ pc = "loop"
    /\ pc' = "output"
    /\ loopEnd' = "exhausted"
    /\ lastPull' = "eof"
    /\ UNCHANGED <<args, locals, objs, outs, returned, errmsg, errCount>>
    /\ UNCHANGED <<pulls, updatedPulls, renders, keyPolls, keyPressed, tracked>>

\* line 78, read() raises
PullThrow ==
    /\ pc = "loop"
    /\ Throw(ErrLibrary)
    /\ UNCHANGED <<args, locals, objs, outs, hist>>

\* lines 78-104, read() returns true: one iteration of the loop.
\* updated: what isUpdated() answers; f: the result addFrame gives;
\* key: a key press is pending while this iteration runs;
\* fail: the library call of this iteration that raises, if any
PullFrame ==
    /\ pc = "loop"
    /\ pulls < MaxPulls
    /\ UNCHANGED <<args, locals, sfl, vs, outs>>
    /\ \E updated \in BOOLEAN, f \in Frames, key \in BOOLEAN,
          fail \in {"none", "addFrame", "render"} :
         /\ pulls' = pulls + 1
         /\ keyPressed' = (keyPressed \/ key)
         /\ lastPull' = IF updated THEN "upd" ELSE "noupd"
         /\ updatedPulls' = IF updated THEN updatedPulls + 1 ELSE updatedPulls
         /\ IF Skips(updated)
            THEN /\ pc' = "loop"
                 /\ UNCHANGED <<sequence, tracked, faceCounter, window, renders, keyPolls>>
                 /\ UNCHANGED <<returned, errmsg, errCount>>
            ELSE IF fail = "addFrame"
            THEN /\ Throw(ErrLibrary)
                 /\ UNCHANGED <<sequence, tracked, faceCounter, window, renders, keyPolls>>
            ELSE /\ sequence' = sfl_addFrame(sequence, f)
                 /\ tracked' = Append(tracked, f)
                 /\ IF ~PreviewBlock(preview)
                    THEN /\ pc' = "loop"
                         /\ UNCHANGED <<faceCounter, window, renders, keyPolls>>
                         /\ UNCHANGED <<returned, errmsg, errCount>>
                    ELSE /\ faceCounter' = faceCounter + Len(f.faces)
                         /\ IF fail = "render"
                            THEN /\ Throw(ErrLibrary)
                                 /\ UNCHANGED <<window, renders, keyPolls>>
                            ELSE /\ renders' = renders + 1
                                 /\ window' = TRUE
                                 /\ keyPolls' = keyPolls + 1
                                 /\ pc' = IF key THEN "output" ELSE "loop"
                                 /\ UNCHANGED <<returned, errmsg, errCount>>
         /\ loopEnd' = IF pc' = "output" THEN "key" ELSE loopEnd

\* ------------------------------------------------------ output conversion
EmptyEntry == [faces |-> <<>>, width |-> <<>>, height |-> <<>>]

\* line 113: one entry per frame of the sequence
OutDimsWithFaces(frames) == Cardinality({ k \in 1..Len(frames) : frames[k].faces # <<>> })
OutDims(frames) == Len(frames)

\* lines 142-146: the landmark matrix, each coordinate incremented
LandmarksOut(l) == [k \in 1..Len(l) |-> <<l[k][1] + 1, l[k][2] + 1>>]

\* line 153: the field is set from face.bbox; the matrix of lines 149-150
\* is not used
BboxOut(b) == <<b.x, b.y, b.width, b.height>>

FaceOut(face) == [landmarks |-> LandmarksOut(face.landmarks), bbox |-> BboxOut(face.bbox)]

\* lines 124-134: width and height are set for every frame, faces only
\* when the frame has some
EntryOut(frame) ==
    [faces  |-> IF frame.faces = <<>> THEN <<>>
                ELSE [j \in 1..Len(frame.faces) |-> FaceOut(frame.faces[j])],
     width  |-> <<frame.width>>,
     height |-> <<frame.height>>]

\* lines 142-143: the matrix wraps face.landmarks.data(), so the increment
\* is done in the session's own storage
InPlace(frame) ==
    [frame EXCEPT !.faces = [j \in 1..Len(frame.faces) |->
                               [frame.faces[j] EXCEPT !.landmarks = LandmarksOut(@)]]]

\* lines 109-116
CreateOutput ==
    /\ pc = "output"
    /\ plhs0' = [has |-> TRUE, val |-> [k \in 1..OutDims(sequence) |-> EmptyEntry]]
    /\ i' = 0
    /\ pc' = "convert"
    /\ UNCHANGED <<args, locals, objs, returned, errmsg, errCount, hist>>

\* lines 119-155, one iteration; building a host array may raise
ConvertFrame ==
    /\ pc = "convert"
    /\ i < Len(sequence)
    /\ UNCHANGED <<args, locals, sfl, vs, faceCounter, window, hist>>
    /\ \/ /\ plhs0' = [plhs0 EXCEPT !.val = [k \in 1..Len(plhs0.val) |->
                          IF k = i + 1 THEN EntryOut(sequence[i + 1]) ELSE plhs0.val[k]]]
          /\ sequence' = [sequence EXCEPT ![i + 1] = InPlace(@)]
          /\ i' = i + 1
          /\ UNCHANGED <<returned, errmsg, errCount, pc>>
       \/ /\ Throw(ErrLibrary)
          /\ UNCHANGED <<plhs0, i, sequence>>

\* lines 157-159: destroyWindow, then the function returns plhs[0];
\* destroyWindow may raise when no window of that name exists
Cleanup ==
    /\ pc = "convert"
    /\ i >= Len(sequence)
    /\ UNCHANGED <<args, locals, sfl, sequence, vs, faceCounter, outs, hist>>
    /\ \/ /\ window' = FALSE
          /\ pc' = "done"
          /\ returned' = plhs0
          /\ UNCHANGED <<errmsg, errCount>>
       \/ /\ ~window
          /\ Throw(ErrLibrary)
          /\ UNCHANGED window

Next ==
    \/ ParseArgs
    \/ CreateSession
    \/ CreateSource
    \/ OpenSource
    \/ PullEnd
    \/ PullThrow
    \/ PullFrame
    \/ CreateOutput
    \/ ConvertFrame
    \/ Cleanup

Spec == Init /\ [][Next]_vars

TypeOK ==
    /\ pc \in {"parse", "session", "source", "open", "loop", "output", "convert", "done", "error"}
    /\ errCount \in 0..1
    /\ pulls \in 0..MaxPulls

\* ================================================================ claims
\* the host's own classification of a value
IsString(a) == a.type = "char"
IsNumber(a) == a.type \in {"int32", "double", "single"}

\* the call has failed with message m before anything was constructed
FailedEarly(m) ==
    /\ pc = "error"
    /\ errmsg = m
    /\ errCount = 1
    /\ ~returned.has
    /\ ~sfl.made
    /\ ~vs.called
    /\ ~vs.made
    /\ ~vs.opened

\* what the parse made of argument 1
ModeTaken ==
    IF errmsg = ErrSecond THEN "rejected"
    ELSE IF inputPath # "" THEN "dataset"
    ELSE IF device # -1 THEN "live"
    ELSE "none"

\* C1: validation runs count, type of argument 0, type of argument 1, in
\* that order; the first failing check gives the error, nothing is returned
\* and neither the session nor the video source has been made.
C1_ValidationOrder ==
    pc # "parse" =>
        /\ Len(args) = 0 => FailedEarly(ErrNoParams)
        /\ Len(args) = 1 => FailedEarly(ErrCount)
        /\ (Len(args) >= 2 /\ ~IsString(args[1])) => FailedEarly(ErrModel)
        /\ (Len(args) >= 2 /\ IsString(args[1])
              /\ ~IsString(args[2]) /\ ~IsNumber(args[2])) => FailedEarly(ErrSecond)

C1_Witness ==
    /\ pc = "error"
    /\ errmsg = ErrModel
    /\ Len(args) >= 3
    /\ IsString(args[2])

\* C2 (as stated): with a string argument 0, a string argument 1 selects
\* dataset mode and a number of any numeric type selects live mode and is
\* never rejected with the "sequence path or device id" error.
C2_AnyNumberIsLive ==
    (pc # "parse" /\ Len(args) >= 2 /\ IsString(args[1])) =>
        /\ IsString(args[2]) => ModeTaken = "dataset"
        /\ IsNumber(args[2]) => (ModeTaken = "live" /\ errmsg # ErrSecond)

\* C2 (amended): with a string argument 0, a string argument 1 selects
\* dataset mode, an int32 or double argument 1 selects live mode, and every
\* other argument 1, a number of another numeric type included, is rejected
\* with the "sequence path or device id" error.
C2_Int32OrDoubleIsLive ==
    (pc # "parse" /\ Len(args) >= 2 /\ IsString(args[1])) =>
        /\ IsString(args[2]) => ModeTaken = "dataset"
        /\ args[2].type \in {"int32", "double"} => ModeTaken = "live"
        /\ args[2].type \notin {"char", "int32", "double"} => FailedEarly(ErrSecond)

C2_Witness ==
    /\ pc = "error"
    /\ Len(args) >= 2
    /\ IsString(args[1])
    /\ args[2].type = "single"
    /\ errmsg = ErrSecond

\* C3: the video source is requested from the parsed input: in live mode
\* the capture device of the given index with the parsed width and height,
\* in dataset mode the given sequence path; never an empty path.
C3_SourceFromParsedInput ==
    vs.called =>
        /\ vs.kind = "path" => vs.path # ""
        /\ IF IsString(args[2])
           THEN vs.kind = "path" /\ vs.path = args[2].str
           ELSE /\ vs.kind = "device"
                /\ vs.device = args[2].num \div 2
                /\ vs.width = width
                /\ vs.height = height

\* C4: while the call has not failed, the frames pushed to the session are
\* as many as the pulls that succeeded and were reported updated, and so is
\* the length of the returned array; a pull reported not updated pushes
\* nothing, renders nothing and polls no key.
C4_State ==
    /\ pc # "error" => (Len(sequence) = updatedPulls /\ Len(tracked) = updatedPulls)
    /\ pc = "done" => (returned.has /\ Len(returned.val) = updatedPulls)
    /\ updatedPulls <= pulls
C4_Step ==
    (pulls' # pulls /\ lastPull' = "noupd") =>
        UNCHANGED <<sequence, tracked, renders, keyPolls, window, faceCounter, pc>>
C4_UpdatedPullsCounted == [](C4_State) /\ [][C4_Step]_vars

C4_Witness ==
    /\ pc = "done"
    /\ updatedPulls >= 1
    /\ pulls > updatedPulls

\* C5: a successful call returns one entry per frame result, in frame
\* order, each with the width and height of its frame; a frame without
\* faces keeps its entry, with an empty faces field.
C5_EveryFrameHasEntry ==
    pc = "done" =>
        /\ returned.has
        /\ Len(returned.val) = Len(tracked)
        /\ Len(returned.val) = updatedPulls
        /\ \A k \in 1..Len(tracked) :
             /\ k \in DOMAIN returned.val
             /\ returned.val[k].width = <<tracked[k].width>>
             /\ returned.val[k].height = <<tracked[k].height>>
             /\ Len(returned.val[k].faces) = Len(tracked[k].faces)

C5_Witness ==
    /\ pc = "done"
    /\ Len(tracked) >= 2
    /\ \A k \in 1..Len(tracked) : tracked[k].faces = <<>>
    /\ \A k \in 1..Len(returned.val) : returned.val[k].faces = <<>>

\* C6: every landmark and every bounding box of the output is the
\* tracker's value moved by +1 in x and in y, once.
C6_AllCoordinatesShifted ==
    pc = "done" =>
        \A k \in 1..Len(tracked) : \A j \in 1..Len(tracked[k].faces) :
            LET face == tracked[k].faces[j]
                out  == returned.val[k].faces[j]
            IN /\ Len(out.landmarks) = Len(face.landmarks)
               /\ \A n \in 1..Len(face.landmarks) :
                    out.landmarks[n] = <<face.landmarks[n][1] + 1, face.landmarks[n][2] + 1>>
               /\ out.bbox = <<face.bbox.x + 1, face.bbox.y + 1, face.bbox.width, face.bbox.height>>

\* C7: a failure anywhere in the call gives one error message and no
\* output; an output is returned only by a call that reported no error.
C7_ErrorOrOutput ==
    /\ errCount <= 1
    /\ pc = "error" => (errCount = 1 /\ errmsg # "" /\ ~returned.has)
    /\ returned.has => (pc = "done" /\ errCount = 0 /\ errmsg = "")
    /\ errCount = 1 => pc = "error"

C7_Witness ==
    /\ pc = "error"
    /\ plhs0.has
    /\ i >= 1
    /\ plhs0.val # <<>>

\* C8: no call ends, normally or with an error, leaving the window it
\* created open.
C8_WindowDestroyedAtEnd ==
    pc \in {"done", "error"} => ~window

\* C9: the optional arguments are bound by position per mode, absent ones
\* keep the defaults, and the session is made from the model path and the
\* resulting scale.
OptNum(k, dflt) == IF Len(args) >= k THEN args[k].num ELSE dflt
C9_OptionalsByPosition ==
    sfl.made =>
        /\ sfl.model = args[1].str
        /\ landmarksModelPath = args[1].str
        /\ sfl.scale = frame_scale
        /\ IF IsString(args[2])
           THEN /\ inputPath = args[2].str
                /\ width = 0
                /\ height = 0
                /\ frame_scale = OptNum(3, 2)
                /\ preview = (OptNum(4, 1) # 0)
           ELSE /\ device = args[2].num \div 2
                /\ width = OptNum(3, 0) \div 2
                /\ height = OptNum(4, 0) \div 2
                /\ frame_scale = OptNum(5, 2)
                /\ preview

C9_Witness ==
    /\ sfl.made
    /\ Len(args) >= 4
    /\ IsString(args[2])
    /\ frame_scale = 3
    /\ ~preview

\* C10: the loop ends only when the source reports no more frames or when
\* a key is pressed; the key is polled only under preview and only after
\* the updated frame has been pushed, so the frame on display is in the
\* output and nothing is pushed after it; without preview a key press does
\* not end the loop.
C10_State ==
    /\ pc = "loop" => loopEnd = "none"
    /\ pc \in {"output", "convert", "done"} => loopEnd \in {"exhausted", "key"}
    /\ loopEnd = "exhausted" => lastPull = "eof"
    /\ loopEnd = "key" =>
         /\ preview
         /\ keyPressed
         /\ lastPull = "upd"
         /\ Len(tracked) = updatedPulls
         /\ renders = Len(tracked)
    /\ keyPolls <= Len(tracked)
    /\ ~preview => (keyPolls = 0 /\ loopEnd # "key")
C10_Step ==
    loopEnd = "key" => UNCHANGED <<tracked, pulls, updatedPulls, keyPolls>>
C10_LoopEnds == [](C10_State) /\ [][C10_Step]_vars

C10_Witness ==
    /\ pc = "done"
    /\ loopEnd = "key"
    /\ pulls < MaxPulls
    /\ Len(returned.val) >= 1
    /\ Len(returned.val) = Len(tracked)

====
